---- MODULE Spec2Model ----
(***************************************************************************)
(* Model of the AG2 strategy consulting agent                              *)
(* (src/ag2_integration/strategy_agent.py): the keyword task classifier,   *)
(* the mapping of a task to a REST call, the retry loop of _make_request   *)
(* and the rendering of a result.                                          *)
(*                                                                         *)
(* Python values are modelled as follows.  A str is a TLA+ string.  An     *)
(* Optional value is a tuple: None is <<>> and a present value v is <<v>>. *)
(* A dict is a record; a list is a sequence.                               *)
(***************************************************************************)
EXTENDS Integers, Sequences, FiniteSets, TLC

(***************************************************************************)
(* Python values and string primitives                                     *)
(***************************************************************************)
None == <<>>

Some(v) == <<v>>

\* Python truthiness of an Optional[str] / Optional[dict]: None and the empty
\* string (or the empty dict, modelled by the record with no field set) are falsy.
Truthy(o) == o # None /\ o[1] # ""

Ch(s, i) == SubSeq(s, i, i)

UpperChars == "ABCDEFGHIJKLMNOPQRSTUVWXYZ"

LowerChars == "abcdefghijklmnopqrstuvwxyz"

DigitChars == "0123456789"

UpperSet == {Ch(UpperChars, i) : i \in 1..Len(UpperChars)}

LowerSet == {Ch(LowerChars, i) : i \in 1..Len(LowerChars)}

DigitSet == {Ch(DigitChars, i) : i \in 1..Len(DigitChars)}

\* str.isspace() characters of the ASCII range, the ones \s matches.
SpaceSet == {" ", "\t", "\n", "\r", "\f"}

ToLowerMap == [c \in UpperSet |-> Ch(LowerChars, CHOOSE i \in 1..Len(UpperChars) : Ch(UpperChars, i) = c)]

ToUpperMap == [c \in LowerSet |-> Ch(UpperChars, CHOOSE i \in 1..Len(LowerChars) : Ch(LowerChars, i) = c)]

LowerChar(c) == IF c \in UpperSet THEN ToLowerMap[c] ELSE c

UpperChar(c) == IF c \in LowerSet THEN ToUpperMap[c] ELSE c

RECURSIVE lower(_)
\* str.lower()
lower(s) == IF s = "" THEN "" ELSE LowerChar(Head(s)) \o lower(Tail(s))

\* `k in s` for two strings
Contains(k, s) == \E i \in 1..(Len(s) - Len(k) + 1) : SubSeq(s, i, i + Len(k) - 1) = k

\* any(keyword in text for keyword in keywords)
AnyKeyword(keywords, s) == \E n \in 1..Len(keywords) : Contains(keywords[n], s)

IsSpace(c) == c \in SpaceSet

IsLetter(c) == c \in UpperSet \/ c \in LowerSet

RECURSIVE rstrip(_)
rstrip(s) == IF s # "" /\ IsSpace(Ch(s, Len(s))) THEN rstrip(SubSeq(s, 1, Len(s) - 1)) ELSE s

RECURSIVE lstrip(_)
lstrip(s) == IF s # "" /\ IsSpace(Head(s)) THEN lstrip(Tail(s)) ELSE s

\* str.strip()
strip(s) == lstrip(rstrip(s))

Min(S) == CHOOSE x \in S : \A y \in S : x <= y

(***************************************************************************)
(* The regular expressions of _extract_company_name, matched as Python's   *)
(* re.search(pattern, text, re.IGNORECASE) matches them: the leftmost      *)
(* start, greedy \s+ and \s*, and the lazy group                           *)
(*     ([A-Z][A-Za-z0-9\s&]+?)                                             *)
(* which, IGNORECASE being set, starts with a letter of either case.       *)
(***************************************************************************)
\* [A-Za-z0-9\s&]
InNameClass(c) == IsLetter(c) \/ c \in DigitSet \/ IsSpace(c) \/ c = "&"

RECURSIVE WsEnd(_, _)
\* The position after the maximal run of whitespace that starts at p.
WsEnd(s, p) == IF p <= Len(s) /\ IsSpace(Ch(s, p)) THEN WsEnd(s, p + 1) ELSE p

\* The literal lit (given in lower case) matches at p, ignoring case.
MatchLit(s, p, lit) == p >= 1 /\ p + Len(lit) - 1 <= Len(s) /\ \A k \in 1..Len(lit) : LowerChar(Ch(s, p + k - 1)) = Ch(lit, k)

\* \s+lit at p: the literal starts with a non-space, so \s+ takes the whole run.
WsThenLit(s, p, lit) == WsEnd(s, p) > p /\ MatchLit(s, WsEnd(s, p), lit)

CharAt(s, p, c) == p <= Len(s) /\ Ch(s, p) = c

\* $ without re.MULTILINE: the end of the string, or just before a final newline.
AtEnd(s, p) == p = Len(s) + 1 \/ (p = Len(s) /\ Ch(s, p) = "\n")

\* (?:\s+using|\s+with|\.|,|$)
TermAnalyze(s, p) == WsThenLit(s, p, "using") \/ WsThenLit(s, p, "with") \/ CharAt(s, p, ".") \/ CharAt(s, p, ",") \/ AtEnd(s, p)

\* (?:\s+using|\.|,|$)
TermOf(s, p) == WsThenLit(s, p, "using") \/ CharAt(s, p, ".") \/ CharAt(s, p, ",") \/ AtEnd(s, p)

\* (?:\s+in|\.|,|$)
TermCompany(s, p) == WsThenLit(s, p, "in") \/ CharAt(s, p, ".") \/ CharAt(s, p, ",") \/ AtEnd(s, p)

\* \s+(?:SWOT|analysis|strategy)
TermLeading(s, p) == WsThenLit(s, p, "swot") \/ WsThenLit(s, p, "analysis") \/ WsThenLit(s, p, "strategy")

\* The position after the maximal run, from p on, of characters in the class.
RunEnd(s, p, InClass(_)) == Min({q \in p..(Len(s) + 1) : q = Len(s) + 1 \/ ~InClass(Ch(s, q))})

\* The ends e of a group [A-Z][A-Za-z0-9\s&]+ that starts at g and is followed
\* by the terminator; the lazy +? takes the least of them.
GroupEnds(s, g, Term(_, _)) == {e \in (g + 1)..(RunEnd(s, g + 1, InNameClass) - 1) : Term(s, e + 1)}

GroupAt(s, g, Term(_, _)) == IF g <= Len(s) /\ IsLetter(Ch(s, g)) THEN LET ends == GroupEnds(s, g, Term) IN IF ends # {} THEN Some(SubSeq(s, g, Min(ends))) ELSE None ELSE None

\* analyze\s+(group)(?:\s+using|\s+with|\.|,|$), tried at start i
PatternAnalyzeAt(s, i) == IF MatchLit(s, i, "analyze") /\ WsEnd(s, i + 7) > i + 7 THEN GroupAt(s, WsEnd(s, i + 7), TermAnalyze) ELSE None

\* The position after (?:for|of)\s+ matched at p, or 0.
AfterForOf(s, p) == IF MatchLit(s, p, "for") /\ WsEnd(s, p + 3) > p + 3 THEN WsEnd(s, p + 3) ELSE IF MatchLit(s, p, "of") /\ WsEnd(s, p + 2) > p + 2 THEN WsEnd(s, p + 2) ELSE 0

\* The position after (?:SWOT|analysis|evaluate)\s+ matched at i, or 0.
AfterHead(s, i) == IF MatchLit(s, i, "swot") /\ WsEnd(s, i + 4) > i + 4 THEN WsEnd(s, i + 4) ELSE IF MatchLit(s, i, "analysis") /\ WsEnd(s, i + 8) > i + 8 THEN WsEnd(s, i + 8) ELSE IF MatchLit(s, i, "evaluate") /\ WsEnd(s, i + 8) > i + 8 THEN WsEnd(s, i + 8) ELSE 0

\* (?:SWOT|analysis|evaluate)\s+(?:for|of)\s+(group)(?:\s+using|\.|,|$), tried at start i
PatternOfAt(s, i) == LET p == AfterHead(s, i) IN IF p # 0 /\ AfterForOf(s, p) # 0 THEN GroupAt(s, AfterForOf(s, p), TermOf) ELSE None

\* company\s+(group)(?:\s+in|\.|,|$), tried at start i
PatternCompanyAt(s, i) == IF MatchLit(s, i, "company") /\ WsEnd(s, i + 7) > i + 7 THEN GroupAt(s, WsEnd(s, i + 7), TermCompany) ELSE None

\* ^\s*(group)\s+(?:SWOT|analysis|strategy): ^ anchors the only start, 1
PatternLeadingAt(s, i) == IF i = 1 THEN GroupAt(s, WsEnd(s, 1), TermLeading) ELSE None

\* re.search: the match at the leftmost start at which the pattern matches.
Search(s, At(_, _)) == IF \E first \in 1..(Len(s) + 1) : At(s, first) # None THEN CHOOSE m \in {At(s, k) : k \in {CHOOSE first \in 1..(Len(s) + 1) : At(s, first) # None /\ \A before \in 1..(first - 1) : At(s, before) = None}} : TRUE ELSE None

\* re.findall(r'"([^"]+)"', text): the first quoted, non-empty, quote-free run.
QuoteStarts(s) == {i \in 1..Len(s) : Ch(s, i) = "\"" /\ i + 1 <= Len(s) /\ Ch(s, i + 1) # "\"" /\ \E j \in (i + 2)..Len(s) : Ch(s, j) = "\""}

FirstQuoted(s) == IF QuoteStarts(s) = {} THEN None ELSE LET i == Min(QuoteStarts(s)) IN Some(SubSeq(s, i + 1, Min({j \in (i + 2)..Len(s) : Ch(s, j) = "\""}) - 1))

(***************************************************************************)
(* Entity extraction                                                       *)
(***************************************************************************)
\* The first of the four patterns that matches gives the name; then the first
\* quoted string; else None.
_extract_company_name(text) == LET m1 == Search(text, PatternAnalyzeAt) m2 == Search(text, PatternOfAt) m3 == Search(text, PatternCompanyAt) m4 == Search(text, PatternLeadingAt) IN IF m1 # None THEN Some(strip(m1[1])) ELSE IF m2 # None THEN Some(strip(m2[1])) ELSE IF m3 # None THEN Some(strip(m3[1])) ELSE IF m4 # None THEN Some(strip(m4[1])) ELSE FirstQuoted(text)

_extract_depth(text) == LET text_lower == lower(text) IN IF AnyKeyword(<<"comprehensive", "detailed", "thorough">>, text_lower) THEN "comprehensive" ELSE IF AnyKeyword(<<"quick", "brief", "summary">>, text_lower) THEN "quick" ELSE "standard"

regions == <<"europe", "asia", "north america", "south america", "africa", "middle east", "global">>

RECURSIVE TitleFrom(_, _)
\* str.title(): a letter that follows a non-letter is upper-cased, any other lower-cased.
TitleFrom(s, afterLetter) == IF s = "" THEN "" ELSE (IF afterLetter THEN LowerChar(Head(s)) ELSE UpperChar(Head(s))) \o TitleFrom(Tail(s), IsLetter(Head(s)))

title(s) == TitleFrom(s, FALSE)

_extract_region(text) == LET text_lower == lower(text) IN IF AnyKeyword(regions, text_lower) THEN title(regions[Min({n \in 1..Len(regions) : Contains(regions[n], text_lower)})]) ELSE "Global"

\* [^,\n]
NotCommaNl(c) == c # "," /\ c # "\n"

\* [^\.]
NotDot(c) == c # "."

\* \s*(greedy group of the class)+ at p, or \s+ when atLeast = 1: the greedy
\* whitespace gives characters back until the group can start.
GreedyGroupStarts(s, p, atLeast, InClass(_)) == {q \in (p + atLeast)..WsEnd(s, p) : q <= Len(s) /\ InClass(Ch(s, q))}

Max(S) == CHOOSE x \in S : \A y \in S : x >= y

GreedyGroup(s, p, atLeast, InClass(_)) == IF GreedyGroupStarts(s, p, atLeast, InClass) = {} THEN None ELSE LET q == Max(GreedyGroupStarts(s, p, atLeast, InClass)) IN Some(SubSeq(s, q, RunEnd(s, q, InClass) - 1))

\* (?:industry|sector):\s*([^,\n]+), tried at start i
PatternIndustryColonAt(s, i) == IF MatchLit(s, i, "industry:") THEN GreedyGroup(s, i + 9, 0, NotCommaNl) ELSE IF MatchLit(s, i, "sector:") THEN GreedyGroup(s, i + 7, 0, NotCommaNl) ELSE None

\* \s+(?:industry|sector|market)
TermIndustry(s, p) == WsThenLit(s, p, "industry") \/ WsThenLit(s, p, "sector") \/ WsThenLit(s, p, "market")

\* \s+market\s+entry
TermMarketEntry(s, p) == WsThenLit(s, p, "market") /\ WsThenLit(s, WsEnd(s, p) + 6, "entry")

\* The ends of a lazy group ([^,\n]+?) that starts at g and is followed by the terminator.
LazyEnds(s, g, Term(_, _)) == {e \in g..(RunEnd(s, g, NotCommaNl) - 1) : Term(s, e + 1)}

\* in\s+the\s+([^,\n]+?)\s+(?:industry|sector|market), tried at start i: the
\* greedy \s+ after "the" keeps as much whitespace as leaves the group a match.
InTheStarts(s, i) == IF MatchLit(s, i, "in") /\ WsThenLit(s, i + 2, "the") THEN {g \in (WsEnd(s, i + 2) + 4)..WsEnd(s, WsEnd(s, i + 2) + 3) : LazyEnds(s, g, TermIndustry) # {}} ELSE {}

PatternInTheAt(s, i) == IF InTheStarts(s, i) = {} THEN None ELSE LET g == Max(InTheStarts(s, i)) IN Some(SubSeq(s, g, Min(LazyEnds(s, g, TermIndustry))))

\* ([^,\n]+?)\s+market\s+entry, tried at start i
PatternMarketEntryAt(s, i) == LET ends == LazyEnds(s, i, TermMarketEntry) IN IF ends = {} THEN None ELSE Some(SubSeq(s, i, Min(ends)))

_extract_industry(text) == LET m1 == Search(text, PatternIndustryColonAt) m2 == Search(text, PatternInTheAt) m3 == Search(text, PatternMarketEntryAt) IN IF m1 # None THEN strip(m1[1]) ELSE IF m2 # None THEN strip(m2[1]) ELSE IF m3 # None THEN strip(m3[1]) ELSE "technology"

\* The position after (?:versus|vs\.?|against) matched at i, or 0; the optional
\* dot is taken when present, and given back only if \s+ could then match,
\* which it cannot at a dot.
AfterVersus(s, i) == IF MatchLit(s, i, "versus") THEN i + 6 ELSE IF MatchLit(s, i, "vs.") THEN i + 3 ELSE IF MatchLit(s, i, "vs") THEN i + 2 ELSE IF MatchLit(s, i, "against") THEN i + 7 ELSE 0

\* (?:versus|vs\.?|against)\s+([^\.]+), tried at start i
PatternVersusAt(s, i) == IF AfterVersus(s, i) # 0 THEN GreedyGroup(s, AfterVersus(s, i), 1, NotDot) ELSE None

\* competitors?:\s*([^\.]+), tried at start i
PatternCompetitorsAt(s, i) == IF MatchLit(s, i, "competitors:") THEN GreedyGroup(s, i + 12, 0, NotDot) ELSE IF MatchLit(s, i, "competitor:") THEN GreedyGroup(s, i + 11, 0, NotDot) ELSE None

\* compete\s+with\s+([^\.]+), tried at start i
PatternCompeteWithAt(s, i) == IF MatchLit(s, i, "compete") /\ WsThenLit(s, i + 7, "with") THEN GreedyGroup(s, WsEnd(s, i + 7) + 4, 1, NotDot) ELSE None

\* The length of the delimiter [,;]|\sand\s that matches at i, or 0.
DelimAt(s, i) == IF Ch(s, i) \in {",", ";"} THEN 1 ELSE IF i + 4 <= Len(s) /\ IsSpace(Ch(s, i)) /\ SubSeq(s, i + 1, i + 3) = "and" /\ IsSpace(Ch(s, i + 4)) THEN 5 ELSE 0

RECURSIVE Split(_)
\* re.split(r'[,;]|\sand\s', s)
Split(s) == LET ds == {i \in 1..Len(s) : DelimAt(s, i) # 0} IN IF ds = {} THEN <<s>> ELSE <<SubSeq(s, 1, Min(ds) - 1)>> \o Split(SubSeq(s, Min(ds) + DelimAt(s, Min(ds)), Len(s)))

RECURSIVE StripNonEmpty(_)
\* [c.strip() for c in parts if c.strip()]
StripNonEmpty(parts) == IF parts = <<>> THEN <<>> ELSE (IF strip(Head(parts)) # "" THEN <<strip(Head(parts))>> ELSE <<>>) \o StripNonEmpty(Tail(parts))

_extract_competitors(text) == LET m1 == Search(text, PatternVersusAt) m2 == Search(text, PatternCompetitorsAt) m3 == Search(text, PatternCompeteWithAt) IN IF m1 # None THEN StripNonEmpty(Split(m1[1])) ELSE IF m2 # None THEN StripNonEmpty(Split(m2[1])) ELSE IF m3 # None THEN StripNonEmpty(Split(m3[1])) ELSE <<>>

(***************************************************************************)
(* The task classifier                                                     *)
(***************************************************************************)
\* The shapes of the `messages` argument: a str; a list whose last element is
\* a dict with a str 'content', a dict without one, a dict whose 'content' is
\* None, or not a dict (a str); the empty list.
MessageKinds == {"str", "list_dict", "list_dict_no_content", "list_dict_none_content", "list_str", "list_empty"}

\* The text _parse_message_for_task classifies (lines 135-142).
MessageText(messages) == IF messages.kind \in {"str", "list_dict", "list_str"} THEN messages.text ELSE ""

swot_keywords == <<"swot", "strengths", "weaknesses", "opportunities", "threats">>

porter_keywords == <<"porter", "five forces", "competitive forces", "industry analysis">>

market_entry_keywords == <<"market entry", "enter market", "expand into", "market expansion">>

competitive_keywords == <<"competitive analysis", "competitor analysis", "competition", "versus", "vs">>

\* The company taken from the lower-cased text.
SwotTaskFromLower(text) == LET company == _extract_company_name(lower(text)) IN IF Truthy(company) THEN Some([type |-> "swot", company |-> company, framework |-> "swot", depth |-> _extract_depth(text)]) ELSE None

SwotTask(text) == LET company == _extract_company_name(text) IN IF Truthy(company) THEN Some([type |-> "swot", company |-> company, framework |-> "swot", depth |-> _extract_depth(text)]) ELSE None

PorterTask(text) == LET company == _extract_company_name(text) IN IF Truthy(company) THEN Some([type |-> "analyze", company |-> company, framework |-> "porters-five-forces", depth |-> _extract_depth(text)]) ELSE None

MarketEntryTask(text) == Some([type |-> "market_entry", industry |-> _extract_industry(text), region |-> _extract_region(text), company |-> _extract_company_name(text)])

CompetitiveTask(text) == Some([type |-> "competitive", company |-> _extract_company_name(text), competitors |-> _extract_competitors(text)])

GenericTask(text) == Some([type |-> "analyze", company |-> _extract_company_name(text), framework |-> "swot", depth |-> _extract_depth(text)])

\* The market-entry rule tried before the Five-Forces rule.
ClassifyTextMarketFirst(text) == LET text_lower == lower(text) IN IF AnyKeyword(swot_keywords, text_lower) THEN SwotTask(text) ELSE IF AnyKeyword(market_entry_keywords, text_lower) THEN MarketEntryTask(text) ELSE IF AnyKeyword(porter_keywords, text_lower) THEN PorterTask(text) ELSE IF AnyKeyword(competitive_keywords, text_lower) THEN CompetitiveTask(text) ELSE IF Contains("analyze", text_lower) /\ Truthy(_extract_company_name(text)) THEN GenericTask(text) ELSE None

\* The generic rule applied to any text that names a company.
ClassifyTextAnyCompany(text) == LET text_lower == lower(text) IN IF AnyKeyword(swot_keywords, text_lower) THEN SwotTask(text) ELSE IF AnyKeyword(porter_keywords, text_lower) THEN PorterTask(text) ELSE IF AnyKeyword(market_entry_keywords, text_lower) THEN MarketEntryTask(text) ELSE IF AnyKeyword(competitive_keywords, text_lower) THEN CompetitiveTask(text) ELSE IF Truthy(_extract_company_name(text)) THEN GenericTask(text) ELSE None

\* A company-scoped rule that finds no company falls through to the next rule.
ClassifyTextFallThrough(text) == LET text_lower == lower(text) IN IF AnyKeyword(swot_keywords, text_lower) /\ SwotTask(text) # None THEN SwotTask(text) ELSE IF AnyKeyword(porter_keywords, text_lower) /\ PorterTask(text) # None THEN PorterTask(text) ELSE IF AnyKeyword(market_entry_keywords, text_lower) THEN MarketEntryTask(text) ELSE IF AnyKeyword(competitive_keywords, text_lower) THEN CompetitiveTask(text) ELSE IF Contains("analyze", text_lower) /\ Truthy(_extract_company_name(text)) THEN GenericTask(text) ELSE None

\* The if/elif chain of lines 150-196 over the text and its lower-cased form.
ClassifyText(text) == LET text_lower == lower(text) IN IF AnyKeyword(swot_keywords, text_lower) THEN SwotTask(text) ELSE IF AnyKeyword(porter_keywords, text_lower) THEN PorterTask(text) ELSE IF AnyKeyword(market_entry_keywords, text_lower) THEN MarketEntryTask(text) ELSE IF AnyKeyword(competitive_keywords, text_lower) THEN CompetitiveTask(text) ELSE IF Contains("analyze", text_lower) /\ Truthy(_extract_company_name(text)) THEN GenericTask(text) ELSE None

_parse_message_for_task(messages) == ClassifyText(MessageText(messages))

\* Line 144: text.lower() raises AttributeError when the last message's
\* 'content' is None, and the function is left by the exception.
ParseRaises(messages) == messages.kind = "list_dict_none_content"

\* str(e) of that AttributeError
ParseError == "'NoneType' object has no attribute 'lower'"

(***************************************************************************)
(* Rendering of a result (_format_response)                                *)
(*                                                                         *)
(* A parsed JSON body is a record: kind is "dict" for a JSON object and    *)
(* "null" for JSON null; of a dict, framework, analysis and                *)
(* recommendations are Optional (None: the key is absent) and extra says   *)
(* whether the object holds any other key.  analysis is a record whose     *)
(* isdict tells a JSON object from any other value, and whose four         *)
(* categories are Optional lists.                                          *)
(***************************************************************************)
RECURSIVE upper(_)
\* str.upper()
upper(s) == IF s = "" THEN "" ELSE UpperChar(Head(s)) \o upper(Tail(s))

\* str(x) of an Optional[str], as an f-string renders it
PyStr(o) == IF o = None THEN "None" ELSE o[1]

\* dict.get(key, default)
Get(d, key, default) == IF key \in DOMAIN d THEN d[key] ELSE default

\* `result is not None` in place of bool(result).
ResultTruthyNotNone(r) == r # None

\* bool(result) of a parsed body: None, JSON null, {} and [] are falsy, a
\* non-empty array and an object with a key are truthy.
ResultTruthy(r) == r # None /\ (r[1].kind = "list" \/ (r[1].kind = "dict" /\ (r[1].extra \/ r[1].framework # None \/ r[1].analysis # None \/ r[1].recommendations # None)))

\* Lines 337 and 347: result.get raises AttributeError on a body that is not
\* a JSON object.
FormatRaises(result) == result.kind # "dict"

\* str(e) of that AttributeError
FormatError == "'list' object has no attribute 'get'"

\* Line 126: the reply of strategy_reply's exception handler
ErrorReply(e) == "I encountered an error while processing your request: " \o e

item_cap == 5

\* A slice of one item too many.
SliceOneMore(lst) == SubSeq(lst, 1, IF Len(lst) < item_cap + 1 THEN Len(lst) ELSE item_cap + 1)

\* lst[:item_cap]
Slice(lst) == SubSeq(lst, 1, IF Len(lst) < item_cap THEN Len(lst) ELSE item_cap)

\* The header lines of lines 333-342.
HeaderLines(result, task) == LET task_type == Get(task, "type", "") IN IF task_type \in {"analyze", "swot"} THEN <<"# Strategic Analysis: " \o PyStr(Get(task, "company", None)), "**Framework:** " \o upper(PyStr(IF result.framework = None THEN Some("SWOT") ELSE result.framework))>> ELSE IF task_type = "market_entry" THEN <<"# Market Entry Analysis", "**Industry:** " \o PyStr(IF "industry" \in DOMAIN task THEN Some(task.industry) ELSE None), "**Region:** " \o PyStr(IF "region" \in DOMAIN task THEN Some(task.region) ELSE None)>> ELSE IF task_type = "competitive" THEN <<"# Competitive Analysis: " \o PyStr(Get(task, "company", None))>> ELSE <<>>

\* The "- item" lines of one category, capped, and the blank line after them.
CategoryLines(analysis, key, heading) == IF analysis[key] = None THEN <<>> ELSE <<heading>> \o [i \in 1..Len(Slice(analysis[key][1])) |-> "- " \o Slice(analysis[key][1])[i]] \o <<"">>

\* Lines 350-373: the four categories, for framework 'swot' and a dict analysis.
SwotLines(result) == IF result.framework = Some("swot") /\ result.analysis # None /\ result.analysis[1].isdict THEN CategoryLines(result.analysis[1], "strengths", "## Strengths") \o CategoryLines(result.analysis[1], "weaknesses", "## Weaknesses") \o CategoryLines(result.analysis[1], "opportunities", "## Opportunities") \o CategoryLines(result.analysis[1], "threats", "## Threats") ELSE <<>>

\* Lines 376-380: enumerate(recommendations[:5], 1)
RecommendationLines(result) == LET recommendations == IF result.recommendations = None THEN <<>> ELSE result.recommendations[1] IN IF recommendations # <<>> THEN <<"## Strategic Recommendations">> \o [i \in 1..Len(Slice(recommendations)) |-> ToString(i) \o ". " \o Slice(recommendations)[i]] ELSE <<>>

\* The list `response` at line 382, for a truthy result.
ResponseLines(result, task, date) == HeaderLines(result, task) \o <<"**Date:** " \o date \o "\n">> \o SwotLines(result) \o RecommendationLines(result)

RECURSIVE Join(_, _)
\* sep.join(lines)
Join(sep, lines) == IF lines = <<>> THEN "" ELSE IF Len(lines) = 1 THEN lines[1] ELSE lines[1] \o sep \o Join(sep, Tail(lines))

\* result is the Optional parsed body; date is datetime.now() as %Y-%m-%d.
_format_response(result, task, date) == IF ~ResultTruthy(result) THEN "Analysis could not be completed." ELSE Join("\n", ResponseLines(result[1], task, date))

(***************************************************************************)
(* The client: state, inputs and the service's possible answers            *)
(***************************************************************************)
VARIABLES op, messages, task, pc, service_url, timeout, session_id, endpoint, data, attempt, posts, clock, responses, result, reply, response_lines, gets, healthy, calls, sent, history, results

vars == <<op, messages, task, pc, service_url, timeout, session_id, endpoint, data, attempt, posts, clock, responses, result, reply, response_lines, gets, healthy, calls, sent, history, results>>

\* Bounds of the model: the words of a message given to strategy_reply, the
\* words of a message given to the classifier alone, and the items of a list
\* of a result.
MaxWords == 2

MaxClassifyWords == 3

MaxItems == 6

\* The words the input texts are made of, joined by single spaces.
Words == {"SWOT", "analyze", "Tesla", "for", "porter", "vs", "market entry", "\"Acme\""}

RECURSIVE TextsOf(_)
\* The texts of at most n words.
TextsOf(n) == IF n = 0 THEN {""} ELSE TextsOf(n - 1) \cup Words \cup {t \o " " \o w : t \in TextsOf(n - 1) \ {""}, w \in Words}

\* The messages whose text has at most n words.
MessagesOf(n) == {[kind |-> k, text |-> t] : k \in {"str", "list_dict", "list_str"}, t \in TextsOf(n)} \cup {[kind |-> k, text |-> ""] : k \in {"list_dict_no_content", "list_empty"}}

\* The messages given to strategy_reply: those with a text, and the list
\* whose last message has 'content': None.
ReplyMessages == MessagesOf(MaxWords) \cup {[kind |-> "list_dict_none_content", text |-> ""]}

\* The constructor's service_url arguments; __init__ strips trailing slashes.
ServiceUrlArgs == {"http://localhost:3001", "http://localhost:3001/"}

RECURSIVE RstripSlash(_)
\* service_url.rstrip('/')
RstripSlash(s) == IF s # "" /\ Ch(s, Len(s)) = "/" THEN RstripSlash(SubSeq(s, 1, Len(s) - 1)) ELSE s

default_timeout == 30

\* The values str(uuid.uuid4()) may take.
SessionIds == {"uuid-1", "uuid-2"}

Dict(framework, analysis, recommendations, extra) == [kind |-> "dict", framework |-> framework, analysis |-> analysis, recommendations |-> recommendations, extra |-> extra]

EmptyDict == Dict(None, None, None, FALSE)

Analysis(strengths, weaknesses, opportunities, threats) == [isdict |-> TRUE, strengths |-> strengths, weaknesses |-> weaknesses, opportunities |-> opportunities, threats |-> threats]

\* The list of n items label1 .. labeln.
Items(label, n) == [i \in 1..n |-> label \o ToString(i)]

\* The bodies a 200 response carries in a strategy_reply or _execute_task
\* call: text that is not JSON, JSON null, {}, [], a non-empty array, an
\* object without any of the keys read, and a SWOT result.
Bodies == {[kind |-> "invalid"], [kind |-> "null"], EmptyDict, [kind |-> "empty_list"], [kind |-> "list"], Dict(None, None, None, TRUE), Dict(Some("swot"), Some(Analysis(Some(Items("s", 1)), None, None, Some(<<>>))), Some(Items("r", 2)), FALSE)}

\* Statuses other than 200 and 503.
OtherStatuses == {404, 500}

Dates == {"2025-01-31"}

\* Tasks handed to _execute_task directly: with and without the optional
\* keys, of the four types, of an unknown type and of no type.
DirectTasks == {[type |-> "swot", company |-> Some("Tesla")], [type |-> "analyze", company |-> Some("Tesla"), framework |-> "porters-five-forces", depth |-> "quick"], [type |-> "analyze", company |-> Some("Acme"), framework |-> "swot", depth |-> "standard"], [type |-> "market_entry", industry |-> "retail", region |-> "Europe", company |-> None], [type |-> "market_entry"], [type |-> "competitive", company |-> Some("Tesla"), competitors |-> <<"Ford", "GM">>], [type |-> "competitive"], [type |-> "executive_summary", company |-> Some("Tesla")], [company |-> Some("Tesla")]}

\* __init__ (lines 67-70) and the local state of a call not yet made.
Constructed(url, uuid) == /\ service_url = RstripSlash(url)
               /\ timeout = default_timeout
               /\ session_id = uuid
               /\ endpoint = None
               /\ data = None
               /\ attempt = 0
               /\ posts = <<>>
               /\ clock = 0
               /\ responses = <<>>
               /\ reply = None
               /\ response_lines = <<>>
               /\ gets = <<>>
               /\ healthy = None
               /\ sent = <<>>
               /\ history = <<>>
               /\ results = None

\* A call of strategy_reply(messages).
InitReply == /\ \E url \in ServiceUrlArgs, uuid \in SessionIds : Constructed(url, uuid)
             /\ op = "strategy_reply"
             /\ messages \in ReplyMessages
             /\ task = None
             /\ pc = "parse"
             /\ result = None
             /\ calls = 1

\* A call of _execute_task(task).
InitExecute == /\ \E url \in ServiceUrlArgs, uuid \in SessionIds : Constructed(url, uuid)
               /\ op = "_execute_task"
               /\ messages = [kind |-> "list_empty", text |-> ""]
               /\ task \in {Some(t) : t \in DirectTasks}
               /\ pc = "execute"
               /\ result = None
               /\ calls = 1

Init == InitReply \/ InitExecute

\* A call of _parse_message_for_task(messages) alone, which reads nothing of
\* the client: one client stands for all.
InitClassify == /\ Constructed("http://localhost:3001", "uuid-1")
                /\ op = "_parse_message_for_task"
                /\ messages \in MessagesOf(MaxClassifyWords)
                /\ task = None
                /\ pc = "parse"
                /\ result = None
                /\ calls = 1

\* The lengths of a SWOT category's list: none, the cap, the longest.
CategoryLengths == {0, item_cap, MaxItems}

Categories(label) == {None} \cup {Some(Items(label, n)) : n \in CategoryLengths}

\* The results handed to _format_response directly.
FormatResults == {None, Some(EmptyDict)} \cup {Some(Dict(f, a, r, FALSE)) : f \in {None, Some("swot"), Some("porters-five-forces")}, a \in {None, Some([isdict |-> FALSE])} \cup {Some(Analysis(s, w, o, t)) : s \in Categories("s"), w \in Categories("w"), o \in Categories("o"), t \in Categories("t")}, r \in {None} \cup {Some(Items("r", n)) : n \in 0..MaxItems}}

FormatTasks == {[type |-> "swot", company |-> Some("Tesla"), framework |-> "swot", depth |-> "standard"], [type |-> "market_entry", industry |-> "retail", region |-> "Europe", company |-> None], [type |-> "competitive", company |-> None, competitors |-> <<>>]}

\* A call of _format_response(result, task), which reads nothing of the client.
InitFormat == /\ Constructed("http://localhost:3001", "uuid-1")
              /\ op = "_format_response"
              /\ messages = [kind |-> "list_empty", text |-> ""]
              /\ task \in {Some(t) : t \in FormatTasks}
              /\ pc = "format"
              /\ result \in FormatResults
              /\ calls = 1

(***************************************************************************)
(* strategy_reply, _execute_task and the three service methods             *)
(***************************************************************************)
\* Lines 111-114: classify the message; no task ends the call with None, an
\* exception ends it in the handler of lines 124-126.
ParseMessage == /\ pc = "parse"
                /\ op = "strategy_reply"
                /\ IF ParseRaises(messages) THEN /\ reply' = Some(ErrorReply(ParseError))
                                                 /\ pc' = "done"
                                                 /\ UNCHANGED <<task, history>>
                                            ELSE /\ task' = _parse_message_for_task(messages)
                                                 /\ pc' = IF task' = None THEN "done" ELSE "execute"
                                                 /\ reply' = None
                                                 /\ history' = Append(history, <<messages, task'>>)
                /\ UNCHANGED <<op, messages, service_url, timeout, session_id, endpoint, data, attempt, posts, clock, responses, result, response_lines, gets, healthy, calls, sent, results>>

\* Lines 403-411
analyze_company(company, framework, depth) == [endpoint |-> service_url \o "/api/analyze", data |-> [company |-> company, framework |-> framework, depth |-> depth, sessionId |-> session_id]]

\* The market-entry request posted to the analyze endpoint.
analyze_market_entry_wrong_path(industry, region, company) == [endpoint |-> service_url \o "/api/analyze", data |-> [industry |-> industry, region |-> region, company |-> company, sessionId |-> session_id]]

\* Lines 430-438
analyze_market_entry(industry, region, company) == [endpoint |-> service_url \o "/api/market-entry", data |-> [industry |-> industry, region |-> region, company |-> company, sessionId |-> session_id]]

\* A competitive request that carries a session identifier of its own.
analyze_competitive_fresh_session(company, competitors) == [endpoint |-> service_url \o "/api/competitive", data |-> [company |-> company, competitors |-> competitors, sessionId |-> "uuid-fresh"]]

\* Lines 455-462
analyze_competitive(company, competitors) == [endpoint |-> service_url \o "/api/competitive", data |-> [company |-> company, competitors |-> competitors, sessionId |-> session_id]]

\* task.get(key) of a key whose value, when present, is a str
GetStr(t, key) == IF key \in DOMAIN t THEN Some(t[key]) ELSE None

\* Lines 293-315: the request _execute_task makes for a task, or None.
RequestFor(t) == LET task_type == Get(t, "type", "") IN IF task_type \in {"analyze", "swot"} THEN Some(analyze_company(Get(t, "company", None), Get(t, "framework", "swot"), Get(t, "depth", "standard"))) ELSE IF task_type = "market_entry" THEN Some(analyze_market_entry(GetStr(t, "industry"), GetStr(t, "region"), Get(t, "company", None))) ELSE IF task_type = "competitive" THEN Some(analyze_competitive(Get(t, "company", None), Get(t, "competitors", <<>>))) ELSE None

\* _execute_task up to the entry of _make_request's loop, or its return of
\* None for a task type it does not know.
ExecuteTask == /\ pc = "execute"
               /\ IF RequestFor(task[1]) # None THEN /\ endpoint' = Some(RequestFor(task[1])[1].endpoint)
                                                     /\ data' = Some(RequestFor(task[1])[1].data)
                                                     /\ pc' = "request"
                                                ELSE /\ pc' = "executed"
                                                     /\ UNCHANGED <<endpoint, data>>
               /\ attempt' = 0
               /\ result' = None
               /\ UNCHANGED <<op, messages, task, service_url, timeout, session_id, posts, clock, responses, reply, response_lines, gets, healthy, calls, sent, history, results>>

(***************************************************************************)
(* _make_request: one action per iteration of the loop and answer          *)
(***************************************************************************)
\* A loop of one iteration too many.
max_retries_one_more == 3 + 1

max_retries == 3

retry_delay == 1

\* A retry allowed after the first attempt only.
MayRetryOnce(n) == n < max_retries - 2

\* Lines 485 and 495: attempt < max_retries - 1
MayRetry(n) == n < max_retries - 1

\* A constant backoff.
BackoffConstant(n) == retry_delay

\* Line 487: time.sleep(retry_delay * (attempt + 1))
Backoff(n) == retry_delay * (n + 1)

Status(code) == [exc |-> "none", status |-> code]

\* A 200 response and the body it carries.
Ok(body) == [exc |-> "none", status |-> 200, body |-> body]

Raised(exc) == [exc |-> exc, status |-> 0]

\* Lines 473-480: the POST of iteration `attempt`, and the answer it gets.
Post(answer) == /\ pc = "request"
                /\ attempt < max_retries
                /\ posts' = Append(posts, [endpoint |-> endpoint[1], json |-> data[1], timeout |-> timeout, at |-> clock])
                /\ responses' = Append(responses, answer)
                /\ sent' = Append(sent, [method |-> "POST", url |-> endpoint[1], json |-> data])

\* return from _make_request, and so from _execute_task
Return(value) == /\ result' = value
                 /\ pc' = "executed"

\* continue, or the end of the loop and line 505 after the last iteration
Continue == /\ attempt' = attempt + 1
            /\ IF attempt + 1 < max_retries THEN UNCHANGED <<pc, result>> ELSE Return(None)

\* Line 483: the value _make_request returns for a 200: response.json(), or
\* None when it raises (line 501) or the body is JSON null.
ParsedBody(body) == IF body.kind \in {"invalid", "null"} THEN None ELSE Some(body)

\* A 200 whose body is dropped and the request made again.
PostOkRetried == /\ \E body \in Bodies : Post(Ok(body))
                 /\ Continue
                 /\ UNCHANGED <<op, messages, task, service_url, timeout, session_id, endpoint, data, clock, reply, response_lines, gets, healthy, calls, history, results>>

\* Lines 482-483: 200; response.json() raises on a body that is not JSON,
\* which line 501 catches, and gives None for JSON null.
PostOk == /\ \E body \in Bodies : /\ Post(Ok(body))
                                  /\ Return(ParsedBody(body))
          /\ UNCHANGED <<op, messages, task, service_url, timeout, session_id, endpoint, data, attempt, clock, reply, response_lines, gets, healthy, calls, history, results>>

\* Lines 484-488: 503 sleeps and continues unless it is the last iteration,
\* which falls through to the end of the loop.
PostUnavailable == /\ Post(Status(503))
                   /\ clock' = IF MayRetry(attempt) THEN clock + Backoff(attempt) ELSE clock
                   /\ Continue
                   /\ UNCHANGED <<op, messages, task, service_url, timeout, session_id, endpoint, data, reply, response_lines, gets, healthy, calls, history, results>>

\* Any other status retried like a 503 without backoff.
PostOtherStatusRetried == /\ \E code \in OtherStatuses : Post(Status(code))
                          /\ Continue
                          /\ UNCHANGED <<op, messages, task, service_url, timeout, session_id, endpoint, data, clock, reply, response_lines, gets, healthy, calls, history, results>>

\* Lines 489-491: any other status returns None.
PostOtherStatus == /\ \E code \in OtherStatuses : Post(Status(code))
                   /\ Return(None)
                   /\ UNCHANGED <<op, messages, task, service_url, timeout, session_id, endpoint, data, attempt, clock, reply, response_lines, gets, healthy, calls, history, results>>

\* Lines 493-497: a timeout continues unless it is the last iteration.
PostTimeout == /\ Post(Raised("Timeout"))
               /\ IF MayRetry(attempt) THEN Continue ELSE Return(None) /\ UNCHANGED attempt
               /\ UNCHANGED <<op, messages, task, service_url, timeout, session_id, endpoint, data, clock, reply, response_lines, gets, healthy, calls, history, results>>

\* Lines 498-503: a connection error, or any other exception, returns None.
PostError == /\ \E exc \in {"ConnectionError", "Exception"} : Post(Raised(exc))
             /\ Return(None)
             /\ UNCHANGED <<op, messages, task, service_url, timeout, session_id, endpoint, data, attempt, clock, reply, response_lines, gets, healthy, calls, history, results>>

\* _format_response called whatever the result.
ReplyFormatsAlways == /\ pc = "executed"
                      /\ op = "strategy_reply"
                      /\ IF ResultTruthy(result) /\ FormatRaises(result[1]) THEN /\ reply' = Some(ErrorReply(FormatError))
                                                                                 /\ UNCHANGED response_lines
                         ELSE \E date \in Dates : /\ reply' = Some(_format_response(result, task[1], date))
                                                  /\ response_lines' = IF ResultTruthy(result) THEN ResponseLines(result[1], task[1], date) ELSE response_lines
                      /\ pc' = "done"
                      /\ UNCHANGED <<op, messages, task, service_url, timeout, session_id, endpoint, data, attempt, posts, clock, responses, result, gets, healthy, calls, sent, history, results>>

\* An exception of _format_response swallowed into None.
ReplySwallowsFormatError == /\ pc = "executed"
                            /\ op = "strategy_reply"
                            /\ IF ~ResultTruthy(result) \/ FormatRaises(result[1]) THEN /\ reply' = None
                                                                                        /\ UNCHANGED response_lines
                               ELSE \E date \in Dates : /\ reply' = Some(_format_response(result, task[1], date))
                                                        /\ response_lines' = ResponseLines(result[1], task[1], date)
                            /\ pc' = "done"
                            /\ UNCHANGED <<op, messages, task, service_url, timeout, session_id, endpoint, data, attempt, posts, clock, responses, result, gets, healthy, calls, sent, history, results>>

\* Lines 119-126: a truthy result is formatted, any other gives None; an
\* exception of _format_response ends the call in the handler.
Reply == /\ pc = "executed"
         /\ op = "strategy_reply"
         /\ IF ~ResultTruthy(result) THEN /\ reply' = None
                                          /\ UNCHANGED response_lines
            ELSE IF FormatRaises(result[1]) THEN /\ reply' = Some(ErrorReply(FormatError))
                                                 /\ UNCHANGED response_lines
            ELSE \E date \in Dates : /\ reply' = Some(_format_response(result, task[1], date))
                                     /\ response_lines' = ResponseLines(result[1], task[1], date)
         /\ pc' = "done"
         /\ UNCHANGED <<op, messages, task, service_url, timeout, session_id, endpoint, data, attempt, posts, clock, responses, result, gets, healthy, calls, sent, history, results>>

\* _parse_message_for_task called alone: its return value is left in task.
Classify == /\ pc = "parse"
            /\ op = "_parse_message_for_task"
            /\ task' = _parse_message_for_task(messages)
            /\ pc' = "done"
            /\ UNCHANGED <<op, messages, service_url, timeout, session_id, endpoint, data, attempt, posts, clock, responses, result, reply, response_lines, gets, healthy, calls, sent, history, results>>

\* _format_response called alone: its return value is left in reply, and the
\* list it joins in response_lines.
FormatResponse == /\ pc = "format"
                  /\ op = "_format_response"
                  /\ \E date \in Dates : /\ reply' = Some(_format_response(result, task[1], date))
                                         /\ response_lines' = IF ResultTruthy(result) THEN ResponseLines(result[1], task[1], date) ELSE <<>>
                  /\ pc' = "done"
                  /\ UNCHANGED <<op, messages, task, service_url, timeout, session_id, endpoint, data, attempt, posts, clock, responses, result, gets, healthy, calls, sent, history, results>>

(***************************************************************************)
(* check_service_health and the calls of a client's lifetime               *)
(***************************************************************************)
\* Line 517: timeout=5
health_timeout == 5

\* The answers a GET of /api/health may get.
HealthAnswers == {Status(200), Status(204), Status(503), Status(404), Raised("Timeout"), Raised("ConnectionError")}

\* An answer of any status taken for a healthy service.
IsHealthyAnyStatus(answer) == answer.exc = "none"

\* Line 519: response.status_code == 200, of an answer that did not raise
IsHealthy(answer) == answer.exc = "none" /\ answer.status = 200

\* Lines 514-521: one GET; True on 200, False on any other status and, by the
\* bare except, on any exception.
check_service_health == /\ pc = "health"
                        /\ \E answer \in HealthAnswers : /\ responses' = Append(responses, answer)
                                                         /\ healthy' = Some(IsHealthy(answer))
                        /\ gets' = Append(gets, [url |-> service_url \o "/api/health", timeout |-> health_timeout])
                        /\ sent' = Append(sent, [method |-> "GET", url |-> service_url \o "/api/health", json |-> None])
                        /\ pc' = "done"
                        /\ UNCHANGED <<op, messages, task, service_url, timeout, session_id, endpoint, data, attempt, posts, clock, result, reply, response_lines, calls, history, results>>

\* The calls made on one client, one after the other.
MaxCalls == 2

\* The messages given to strategy_reply in a lifetime: a SWOT task, two
\* texts without a task, a market-entry task, and a 'content' of None.
LifetimeMessages == {[kind |-> "str", text |-> "SWOT for Tesla"], [kind |-> "list_dict", text |-> "for Tesla"], [kind |-> "str", text |-> "SWOT"], [kind |-> "list_str", text |-> "market entry"], [kind |-> "list_dict_none_content", text |-> ""]}

\* No call is running: none was made, or the last one has returned.
Idle == pc = "idle" \/ pc = "done" \/ (pc = "executed" /\ op # "strategy_reply")

\* The entry of a method that gives the client a session identifier of its
\* own for the call.
BeginCallFreshSession(name) == /\ Idle
                               /\ calls < MaxCalls
                               /\ calls' = calls + 1
                               /\ op' = name
                               /\ task' = None
                               /\ attempt' = 0
                               /\ posts' = <<>>
                               /\ gets' = <<>>
                               /\ clock' = 0
                               /\ responses' = <<>>
                               /\ result' = None
                               /\ reply' = None
                               /\ response_lines' = <<>>
                               /\ healthy' = None
                               /\ session_id' \in SessionIds
                               /\ UNCHANGED <<service_url, timeout, sent, history, results>>

\* The entry of a public method: its locals are fresh, and the client's
\* attributes are those __init__ set.
BeginCall(name) == /\ Idle
                   /\ calls < MaxCalls
                   /\ calls' = calls + 1
                   /\ op' = name
                   /\ task' = None
                   /\ attempt' = 0
                   /\ posts' = <<>>
                   /\ gets' = <<>>
                   /\ clock' = 0
                   /\ responses' = <<>>
                   /\ result' = None
                   /\ reply' = None
                   /\ response_lines' = <<>>
                   /\ healthy' = None
                   /\ UNCHANGED <<service_url, timeout, session_id, sent, history, results>>

\* A call whose message and request are not yet set.
NoRequest == /\ endpoint' = None
             /\ data' = None

NoMessage == messages' = [kind |-> "list_empty", text |-> ""]

\* The request of a service method called directly, up to _make_request.
Request(request) == /\ endpoint' = Some(request.endpoint)
                    /\ data' = Some(request.data)
                    /\ pc' = "request"

CallStrategyReply == /\ BeginCall("strategy_reply")
                     /\ messages' \in LifetimeMessages
                     /\ NoRequest
                     /\ pc' = "parse"

CallAnalyzeCompany == /\ BeginCall("analyze_company")
                      /\ NoMessage
                      /\ \E framework \in {"swot", "porters-five-forces"} : Request(analyze_company(Some("Tesla"), framework, "standard"))

CallAnalyzeMarketEntry == /\ BeginCall("analyze_market_entry")
                          /\ NoMessage
                          /\ Request(analyze_market_entry(Some("retail"), Some("Europe"), None))

CallAnalyzeCompetitive == /\ BeginCall("analyze_competitive")
                          /\ NoMessage
                          /\ Request(analyze_competitive(Some("Tesla"), <<"Ford", "GM">>))

CallCheckServiceHealth == /\ BeginCall("check_service_health")
                          /\ NoMessage
                          /\ NoRequest
                          /\ pc' = "health"

\* A client just constructed, on which no method was called yet.
InitLifetime == /\ \E uuid \in SessionIds : Constructed("http://localhost:3001/", uuid)
                /\ op = "idle"
                /\ messages = [kind |-> "list_empty", text |-> ""]
                /\ task = None
                /\ pc = "idle"
                /\ result = None
                /\ calls = 0

(***************************************************************************)
(* BusinessAnalysisOrchestrator._extract_results_from_chat                 *)
(***************************************************************************)
\* message.get(key, "") of a message whose keys hold a str when present
GetText(message, key) == IF message[key] = None THEN "" ELSE message[key][1]

\* [^\n]
NotNl(c) == c # "\n"

IsDigit(c) == c \in DigitSet

\* \d+\.\s+([^\n]+) matched at start i: the first and last position of the
\* group, or None. \d+ takes the run of digits, \s+ the run of white space,
\* which gives back its last characters while the group cannot start.
NumberedAt(s, i) == IF i <= Len(s) /\ IsDigit(Ch(s, i)) THEN LET dot == RunEnd(s, i, IsDigit) ws == WsEnd(s, dot + 1) starts == {g \in (dot + 2)..ws : g <= Len(s) /\ NotNl(Ch(s, g))} IN IF dot <= Len(s) /\ Ch(s, dot) = "." /\ starts # {} THEN Some(<<Max(starts), RunEnd(s, Max(starts), NotNl) - 1>>) ELSE None ELSE None

RECURSIVE FindAllFrom(_, _)
\* The groups of the matches found from position p on, left to right, each
\* search starting where the last match ended.
FindAllFrom(s, p) == LET found == {i \in p..Len(s) : NumberedAt(s, i) # None} IN IF found = {} THEN <<>> ELSE LET group == NumberedAt(s, Min(found))[1] IN <<SubSeq(s, group[1], group[2])>> \o FindAllFrom(s, group[2] + 1)

\* Line 279: re.findall(r'\d+\.\s+([^\n]+)', content)
FindAll(content) == FindAllFrom(content, 1)

\* No test of the keyword: the numbered items of every message are taken.
MentionsRecommendAlways(content) == TRUE

\* Line 277: "recommend" in content.lower()
MentionsRecommend(content) == Contains("recommend", lower(content))

\* A slot that keeps the first content put into it.
PutIfAbsent(old, content) == IF old = None THEN Some(content) ELSE old

\* results[category][slot] = content: the slot's value after the assignment.
Put(old, content) == Some(content)

\* Lines 246-254: the results before the loop; a category's dict is the
\* record of its slots, None for a key not set.
EmptyResults(now) == [company |-> "", timestamp |-> now, strategic_analysis |-> [swot |-> None, porters |-> None], market_research |-> [insights |-> None], financial_analysis |-> [metrics |-> None], risk_assessment |-> [risks |-> None], recommendations |-> <<>>]

\* Lines 260-274: the if/elif chain over the sender.
Bucket(r, sender, content) == IF sender = "StrategyConsultant" THEN IF Contains("swot", lower(content)) THEN [r EXCEPT !.strategic_analysis.swot = Put(@, content)] ELSE IF Contains("porter", lower(content)) THEN [r EXCEPT !.strategic_analysis.porters = Put(@, content)] ELSE r ELSE IF sender = "MarketResearcher" THEN [r EXCEPT !.market_research.insights = Put(@, content)] ELSE IF sender = "FinancialAnalyst" THEN [r EXCEPT !.financial_analysis.metrics = Put(@, content)] ELSE IF sender = "RiskAnalyst" THEN [r EXCEPT !.risk_assessment.risks = Put(@, content)] ELSE r

\* Lines 277-280: the recommendations of one message appended.
Recommend(r, content) == IF MentionsRecommend(content) THEN [r EXCEPT !.recommendations = @ \o FindAll(content)] ELSE r

\* Lines 257-280: the body of the loop for one message.
ExtractMessage(r, message) == Recommend(Bucket(r, GetText(message, "name"), GetText(message, "content")), GetText(message, "content"))

RECURSIVE ExtractLoop(_, _)
\* Lines 256-280: for message in messages
ExtractLoop(r, chat) == IF chat = <<>> THEN r ELSE ExtractLoop(ExtractMessage(r, Head(chat)), Tail(chat))

\* now is datetime.now().isoformat()
_extract_results_from_chat(chat, now) == ExtractLoop(EmptyResults(now), chat)

\* The messages of a transcript.
MaxMessages == 2

\* The names of the four agents, of the user proxy, and no name.
Senders == {Some("StrategyConsultant"), Some("MarketResearcher"), Some("FinancialAnalyst"), Some("RiskAnalyst"), Some("User"), None}

\* Contents: with one keyword, with both, with neither, numbered items with
\* and without the keyword in the message, an item that is not a line of
\* its own, and no content.
Contents == {Some("SWOT: strong brand"), Some("Porter and swot"), Some("Porter: rivalry"), Some("plain"), Some("We Recommend:\n1. Cut costs\n2.  Expand"), Some("1. Not advice"), Some("Risks 3. recommended hedge\n"), None}

ChatMessages == {[name |-> n, content |-> c] : n \in Senders, c \in Contents}

RECURSIVE Transcripts(_)
\* The transcripts of at most n messages.
Transcripts(n) == IF n = 0 THEN {<<>>} ELSE Transcripts(n - 1) \cup {Append(t, m) : t \in Transcripts(n - 1), m \in ChatMessages}

Timestamps == {"2025-01-31T09:30:00"}

\* A call of _extract_results_from_chat(messages), which reads nothing of a
\* strategy client.
InitExtract == /\ Constructed("http://localhost:3001", "uuid-1")
               /\ op = "_extract_results_from_chat"
               /\ messages \in Transcripts(MaxMessages)
               /\ task = None
               /\ pc = "extract"
               /\ result = None
               /\ calls = 1

\* _extract_results_from_chat called: its return value is left in results.
ExtractResults == /\ pc = "extract"
                  /\ op = "_extract_results_from_chat"
                  /\ \E now \in Timestamps : results' = Some(_extract_results_from_chat(messages, now))
                  /\ pc' = "done"
                  /\ UNCHANGED <<op, messages, task, service_url, timeout, session_id, endpoint, data, attempt, posts, clock, responses, result, reply, response_lines, gets, healthy, calls, sent, history>>

Next == ParseMessage \/ ExecuteTask \/ PostOk \/ PostUnavailable \/ PostOtherStatus \/ PostTimeout \/ PostError \/ Reply

Spec == Init /\ [][Next]_vars

NextLifetime == CallStrategyReply \/ CallAnalyzeCompany \/ CallAnalyzeMarketEntry \/ CallAnalyzeCompetitive \/ CallCheckServiceHealth \/ check_service_health \/ ParseMessage \/ ExecuteTask \/ PostOk \/ PostUnavailable \/ PostOtherStatus \/ PostTimeout \/ PostError \/ Reply

SpecLifetime == InitLifetime /\ [][NextLifetime]_vars

\* One call of strategy_reply, every step of which is taken: the code is
\* sequential, and each POST returns or raises within its timeout.
InitOneReply == /\ \E uuid \in SessionIds : Constructed("http://localhost:3001", uuid)
                /\ op = "strategy_reply"
                /\ messages \in LifetimeMessages
                /\ task = None
                /\ pc = "parse"
                /\ result = None
                /\ calls = 1

SpecOneReply == InitOneReply /\ [][Next]_vars /\ WF_vars(Next)

SpecExtract == InitExtract /\ [][ExtractResults]_vars

SpecClassify == InitClassify /\ [][Classify]_vars

SpecFormat == InitFormat /\ [][FormatResponse]_vars

(***************************************************************************)
(* The retry policy of _make_request                                       *)
(***************************************************************************)
Returned == pc \in {"executed", "done"}

AllAnswers(answer) == \A i \in 1..Len(responses) : responses[i] = answer

\* C1: when the service answers every POST with 503, the client makes exactly
\* 3 POSTs and then returns None; a call never makes a 4th POST.
C1_Exhausts503 == /\ Len(posts) <= 3
                  /\ AllAnswers(Status(503)) /\ pc = "request" => Len(posts) < 3
                  /\ AllAnswers(Status(503)) /\ Returned /\ posts # <<>> => Len(posts) = 3 /\ result = None

C1_Witness == pc = "executed" /\ Len(posts) = 3 /\ AllAnswers(Status(503)) /\ result = None

IsAbort(answer) == (answer.exc = "none" /\ answer.status \notin {200, 503}) \/ answer.exc = "ConnectionError"

\* C2: on whichever attempt it occurs, a status that is neither 200 nor 503,
\* or a connection error, is the last answer of the call: the call has
\* returned None and no POST follows it.
C2_AbortsAtOnce == \A i \in 1..Len(responses) : IsAbort(responses[i]) => i = Len(responses) /\ Len(posts) = i /\ Returned /\ result = None

C2_Witness == pc = "executed" /\ Len(responses) = 3 /\ responses[2] = Raised("Timeout") /\ responses[3] = Status(404) /\ result = None

\* C3: a timeout on the 1st or 2nd attempt leaves the call in its loop with
\* the next POST to come, a timeout on the 3rd attempt returns None, and a
\* service that always times out is tried exactly 3 times.
C3_TimeoutRetried == /\ \A i \in 1..Len(responses) : responses[i] = Raised("Timeout") => IF i < 3 THEN Len(responses) > i \/ (pc = "request" /\ attempt = i /\ ENABLED PostTimeout) ELSE Returned /\ result = None
                     /\ AllAnswers(Raised("Timeout")) /\ Returned /\ posts # <<>> => Len(posts) = 3

C3_Witness == pc = "executed" /\ Len(posts) = 3 /\ AllAnswers(Raised("Timeout")) /\ result = None

\* The time between the i-th POST and the next one, or now if it is the last.
WaitAfter(i) == (IF i < Len(posts) THEN posts[i + 1].at ELSE clock) - posts[i].at

\* C4: the client waits n time units after the n-th attempt (n = 1, 2) returns
\* 503, and waits 0 units after a 503 on the 3rd attempt and after any other
\* answer, a timeout included.
C4_LinearBackoff == \A i \in 1..Len(responses) : WaitAfter(i) = IF responses[i] = Status(503) /\ i \in {1, 2} THEN i ELSE 0

C4_Witness == pc = "executed" /\ Len(posts) = 3 /\ AllAnswers(Status(503)) /\ posts[2].at = 1 /\ posts[3].at = 3 /\ clock = 3

(***************************************************************************)
(* The classifier's precedence and results                                 *)
(***************************************************************************)
RuleKeywords == <<swot_keywords, porter_keywords, market_entry_keywords, competitive_keywords, <<"analyze">>>>

RuleTypes == <<"swot", "analyze", "market_entry", "competitive", "analyze">>

RuleFrameworks == <<"swot", "porters-five-forces", "", "", "swot">>

\* The rules, in the order SWOT, Five-Forces, market-entry, competitive,
\* generic analyze, one of whose keywords occurs in the lower-cased text.
MatchingRules(text) == {n \in 1..Len(RuleKeywords) : AnyKeyword(RuleKeywords[n], lower(text))}

DecidingRule(text) == Min(MatchingRules(text))

Classified == op = "_parse_message_for_task" /\ pc = "done"

\* C5: the task produced, if any, has the type (and framework) of the
\* highest-precedence rule with a keyword in the text, whatever keywords of
\* lower rules the text holds; the market-entry and competitive rules, when
\* they decide, always produce a task.
C5_FirstMatchWins == Classified => LET text == MessageText(messages) IN /\ task # None => MatchingRules(text) # {} /\ task[1].type = RuleTypes[DecidingRule(text)] /\ Get(task[1], "framework", "") = RuleFrameworks[DecidingRule(text)]
                                                                        /\ MatchingRules(text) # {} /\ DecidingRule(text) \in {3, 4} => task # None

C5_Witness == Classified /\ task # None /\ Cardinality(MatchingRules(MessageText(messages))) >= 2 /\ DecidingRule(MessageText(messages)) = 2 /\ task[1].framework = "porters-five-forces"

\* C6: a text with a SWOT keyword from which a company name can be extracted
\* gives a task of type swot or analyze with framework "swot" and that name
\* as its company.
C6_SwotWithCompany == Classified /\ AnyKeyword(swot_keywords, lower(MessageText(messages))) /\ _extract_company_name(MessageText(messages)) # None => /\ task # None
                                                                                                                                                   /\ task[1].type \in {"swot", "analyze"}
                                                                                                                                                   /\ task[1].framework = "swot"
                                                                                                                                                   /\ task[1].company = _extract_company_name(MessageText(messages))

C6_Witness == Classified /\ messages.text = "SWOT for Tesla" /\ task # None /\ task[1].company = Some("Tesla") /\ task[1].framework = "swot"

\* Some rule has a keyword in the lower-cased text.
HasKeyword(text) == LET text_lower == lower(text) IN \E n \in 1..Len(RuleKeywords) : AnyKeyword(RuleKeywords[n], text_lower)

C8_CompanyScoped == Classified => LET text == MessageText(messages) IN /\ task # None /\ task[1].type \in {"swot", "analyze"} => task[1].company # None /\ task[1].company[1] # ""
                                                                       /\ MatchingRules(text) # {} /\ DecidingRule(text) \in {1, 2, 5} /\ ~Truthy(_extract_company_name(text)) => task = None

C8_Witness == Classified /\ messages.text = "SWOT vs" /\ MatchingRules(messages.text) = {1, 4} /\ _extract_company_name(messages.text) = None /\ task = None

(***************************************************************************)
(* The endpoint of a task                                                  *)
(***************************************************************************)
\* The path the claim gives each task type; "" for a type that sends nothing.
PathOfType(type) == IF type \in {"swot", "analyze"} THEN "/api/analyze" ELSE IF type = "market_entry" THEN "/api/market-entry" ELSE IF type = "competitive" THEN "/api/competitive" ELSE ""

\* C9: every POST of a call goes to the endpoint of the task's type, and a
\* task of any other type sends nothing and returns None.
C9_EndpointByType == pc \in {"request", "executed", "done"} /\ task # None => LET path == PathOfType(Get(task[1], "type", "")) IN IF path = "" THEN posts = <<>> /\ pc # "request" /\ result = None ELSE /\ endpoint = Some(service_url \o path)
                                                                                                                                                                                           /\ \A i \in 1..Len(posts) : posts[i].endpoint = service_url \o path
                                                                                                                                                                                           /\ Returned => posts # <<>>

C9_Witness == op = "_execute_task" /\ pc = "executed" /\ Get(task[1], "type", "") = "market_entry" /\ Len(posts) = 2 /\ posts[2].endpoint = "http://localhost:3001/api/market-entry"

(***************************************************************************)
(* The cap of rendered lists                                               *)
(***************************************************************************)
IsNumbered(line) == Len(line) >= 3 /\ Ch(line, 1) \in DigitSet /\ SubSeq(line, 2, 3) = ". "

IsBullet(line) == Len(line) >= 2 /\ SubSeq(line, 1, 2) = "- "

\* The bullet lines directly under the heading's line, if the heading occurs.
BulletsUnder(lines, heading) == IF \E i \in 1..Len(lines) : lines[i] = heading THEN LET h == Min({i \in 1..Len(lines) : lines[i] = heading}) e == Min({j \in (h + 1)..(Len(lines) + 1) : j = Len(lines) + 1 \/ ~IsBullet(lines[j])}) IN SubSeq(lines, h + 1, e - 1) ELSE <<>>

FirstFive(lst) == SubSeq(lst, 1, IF Len(lst) < 5 THEN Len(lst) ELSE 5)

Formatted == op = "_format_response" /\ pc = "done" /\ ResultTruthy(result)

CategoryCapped(key, heading) == LET a == result[1].analysis[1] IN a[key] # None => BulletsUnder(response_lines, heading) = [i \in 1..Len(FirstFive(a[key][1])) |-> "- " \o a[key][1][i]]

\* C10: of n recommendations exactly the first min(n, 5) are rendered, in
\* their order, numbered from 1; and for framework "swot" each category is
\* rendered with its first min(n, 5) items.
C10_CappedAtFive == Formatted => /\ LET recs == IF result[1].recommendations = None THEN <<>> ELSE result[1].recommendations[1] IN SelectSeq(response_lines, IsNumbered) = [i \in 1..Len(FirstFive(recs)) |-> ToString(i) \o ". " \o recs[i]]
                                 /\ result[1].framework = Some("swot") /\ result[1].analysis # None /\ result[1].analysis[1].isdict => CategoryCapped("strengths", "## Strengths") /\ CategoryCapped("weaknesses", "## Weaknesses") /\ CategoryCapped("opportunities", "## Opportunities") /\ CategoryCapped("threats", "## Threats")
                                 /\ reply = Some(Join("\n", response_lines))

C10_Witness == Formatted /\ result[1].framework = Some("swot") /\ result[1].recommendations = Some(Items("r", MaxItems)) /\ result[1].analysis # None /\ result[1].analysis[1].isdict /\ result[1].analysis[1].threats = Some(Items("t", MaxItems)) /\ Len(SelectSeq(response_lines, IsNumbered)) = 5 /\ Len(BulletsUnder(response_lines, "## Threats")) = 5

(***************************************************************************)
(* The session identifier over the lifetime of a client                    *)
(***************************************************************************)
\* C11 as stated: every outbound request of the client's lifetime, the GET
\* of the health check included, carries the session identifier set at
\* construction.
C11_EveryRequestCarriesSession == \A i \in 1..Len(sent) : sent[i].json # None /\ sent[i].json[1].sessionId = session_id

\* C11 amended: every POST of the client's lifetime carries in its JSON body
\* the one session identifier set at construction, and the GET of
\* check_service_health carries no body and no session identifier.
C11_PostsCarrySession == \A i \in 1..Len(sent) : IF sent[i].method = "POST" THEN sent[i].json # None /\ sent[i].json[1].sessionId = session_id ELSE sent[i].json = None

C11_Witness == calls = 2 /\ Len(sent) = 3 /\ sent[1].method = "GET" /\ sent[2].method = "POST" /\ sent[3].method = "POST" /\ session_id = "uuid-2" /\ sent[2].json[1].sessionId = "uuid-2" /\ sent[3].json[1].sessionId = "uuid-2"

(***************************************************************************)
(* The outcomes of strategy_reply                                          *)
(***************************************************************************)
Replied == op = "strategy_reply" /\ pc = "done"

LastResponse == responses[Len(responses)]

\* The last answer of the call is a 200 whose body has one of the kinds.
LastBodyIn(kinds) == responses # <<>> /\ LastResponse.exc = "none" /\ LastResponse.status = 200 /\ LastResponse.body.kind \in kinds

\* The call ended on a failure of the service: retries exhausted, a
\* connection error (or other exception), or a status other than 200.
ServiceUnavailable == responses # <<>> /\ (LastResponse.exc # "none" \/ LastResponse.status # 200)

\* C12: a call of strategy_reply that found no task, or whose service call
\* failed (retries exhausted, connection error, status other than 200), or
\* whose 200 response had an unparseable body, has returned None, the same
\* value in the three cases.
C12_NoneOutcomes == Replied => /\ ~ParseRaises(messages) /\ task = None => reply = None /\ posts = <<>>
                               /\ ServiceUnavailable => reply = None
                               /\ LastBodyIn({"invalid"}) => reply = None

C12_Witness == Replied /\ task # None /\ Len(responses) = 2 /\ responses[1] = Status(503) /\ LastBodyIn({"invalid"}) /\ reply = None

ErrorPrefix == "I encountered an error while processing your request: "

IsErrorReply(r) == r # None /\ Len(r[1]) >= Len(ErrorPrefix) /\ SubSeq(r[1], 1, Len(ErrorPrefix)) = ErrorPrefix

\* An exception was raised inside _execute_task: by session.post, or by
\* response.json() on a body that is not JSON.
ExecutionRaised == \E i \in 1..Len(responses) : responses[i].exc # "none" \/ (responses[i].status = 200 /\ responses[i].body.kind = "invalid")

FormatRaised == ResultTruthy(result) /\ FormatRaises(result[1])

\* C13 as stated: whenever an exception was raised while parsing, executing
\* or formatting, the reply is the plain-text error message.
C13_AnyExceptionGivesErrorText == Replied /\ (ParseRaises(messages) \/ ExecutionRaised \/ FormatRaised) => IsErrorReply(reply)

\* C13 amended: a call of strategy_reply always ends with a reply; an
\* exception raised while parsing or formatting gives the plain-text error
\* message with the exception's text; an exception raised while executing
\* the task is handled inside _execute_task and by itself gives no error
\* message: the reply is then None or the report of a later 200.
C13_ErrorsHandled == /\ op = "strategy_reply" => pc \in {"parse", "execute", "request", "executed", "done"}
                     /\ Replied /\ ParseRaises(messages) => reply = Some(ErrorReply(ParseError)) /\ posts = <<>>
                     /\ Replied /\ FormatRaised => reply = Some(ErrorReply(FormatError))
                     /\ Replied /\ IsErrorReply(reply) => ParseRaises(messages) \/ FormatRaised
                     /\ Replied /\ ExecutionRaised /\ ~ResultTruthy(result) => reply = None

C13_Witness == Replied /\ Len(responses) = 2 /\ responses[1] = Raised("Timeout") /\ LastBodyIn({"list"}) /\ reply = Some("I encountered an error while processing your request: 'list' object has no attribute 'get'")

(***************************************************************************)
(* Termination and the requests of one call                                *)
(***************************************************************************)
\* C17 (safety): at most 3 POSTs, all to one endpoint with one JSON body,
\* and a 200 is the last answer, its parsed body the result returned.
C17_Requests == /\ Len(posts) <= 3
                /\ \A i \in 1..Len(posts) : posts[i].endpoint = posts[1].endpoint /\ posts[i].json = posts[1].json
                /\ \A i \in 1..Len(responses) : responses[i].exc = "none" /\ responses[i].status = 200 => i = Len(responses) /\ Len(posts) = i /\ Returned /\ result = ParsedBody(responses[i].body)

\* C17: whatever the service answers, one call of strategy_reply ends, and
\* at every moment of it the POSTs sent are as C17_Requests says.
C17_Terminates == [](C17_Requests) /\ <>(pc = "done")

C17_Witness == Replied /\ Len(posts) = 3 /\ responses[1] = Raised("Timeout") /\ responses[2] = Status(503) /\ LastBodyIn({"dict"}) /\ result = Some(LastResponse.body) /\ reply # None

(***************************************************************************)
(* Falsy bodies                                                            *)
(***************************************************************************)
\* The last answer is a 200 with a falsy body: null, {} or [].
LastBodyFalsy == LastBodyIn({"null", "empty_list"}) \/ (LastBodyIn({"dict"}) /\ LastResponse.body = EmptyDict)

\* C18: a 200 with a falsy body gives None like a failure of the service; a
\* report is returned only for a truthy parsed body of a 200; and the text
\* of _format_response for a falsy result is never the reply.
C18_FalsyBodyGivesNone == Replied => /\ reply # Some("Analysis could not be completed.")
                                     /\ LastBodyFalsy => reply = None
                                     /\ reply # None /\ ~IsErrorReply(reply) => LastBodyIn({"dict"}) /\ LastResponse.body # EmptyDict /\ result = Some(LastResponse.body)

C18_Witness == Replied /\ task # None /\ Len(posts) = 1 /\ LastBodyIn({"dict"}) /\ LastResponse.body = EmptyDict /\ result = Some(EmptyDict) /\ reply = None

(***************************************************************************)
(* The health check                                                        *)
(***************************************************************************)
HealthChecked == op = "check_service_health" /\ pc = "done"

\* C14: a call of check_service_health sends nothing before its one GET of
\* service_url/api/health, and ends after that one GET, without any POST,
\* with True when the answer is status 200 and False for any other status
\* and for a timeout or connection error.
C14_HealthCheck == /\ op = "check_service_health" /\ pc = "health" => gets = <<>> /\ posts = <<>> /\ healthy = None
                   /\ HealthChecked => Len(gets) = 1 /\ gets[1].url = service_url \o "/api/health" /\ posts = <<>> /\ Len(responses) = 1
                   /\ HealthChecked => healthy \in {Some(TRUE), Some(FALSE)} /\ (healthy = Some(TRUE) <=> responses[1] = Status(200))
                   /\ op = "check_service_health" => pc \in {"health", "done"}

C14_Witness == HealthChecked /\ calls = 2 /\ responses = <<Status(204)>> /\ healthy = Some(FALSE) /\ Len(gets) = 1 /\ gets[1].url = "http://localhost:3001/api/health"

(***************************************************************************)
(* What a call leaves behind                                               *)
(***************************************************************************)
\* Two classifications of one message in a lifetime gave one task.
SameMessageSameTask == \A i, j \in 1..Len(history) : history[i][1] = history[j][1] => history[i][2] = history[j][2]

\* C16: no step of any call changes service_url, timeout or session_id, and
\* whatever calls were made before, a message classified again gets the
\* task it got before.
C16_NoSharedState == [](SameMessageSameTask) /\ [][service_url' = service_url /\ timeout' = timeout /\ session_id' = session_id]_vars

C16_Witness == calls = 2 /\ pc = "done" /\ Len(history) = 2 /\ history[1] = history[2] /\ history[1][2] # None /\ Len(sent) >= 2 /\ reply # None /\ service_url = "http://localhost:3001" /\ timeout = 30

(***************************************************************************)
(* The results extracted from a transcript                                 *)
(***************************************************************************)
Extracted == op = "_extract_results_from_chat" /\ pc = "done"

SenderOf(i) == GetText(messages[i], "name")

ContentOf(i) == GetText(messages[i], "content")

\* The positions of the sender's messages in the transcript.
From(sender) == {i \in 1..Len(messages) : SenderOf(i) = sender}

\* A slot holds nothing, or the content of a message of its sender.
FilledOnlyBy(slot, sender) == slot # None => \E i \in From(sender) : ContentOf(i) = slot[1]

\* Every slot holds only content of the sender its category is fixed for.
BucketedBySender == LET r == results[1] IN /\ FilledOnlyBy(r.strategic_analysis.swot, "StrategyConsultant")
                                           /\ FilledOnlyBy(r.strategic_analysis.porters, "StrategyConsultant")
                                           /\ FilledOnlyBy(r.market_research.insights, "MarketResearcher")
                                           /\ FilledOnlyBy(r.financial_analysis.metrics, "FinancialAnalyst")
                                           /\ FilledOnlyBy(r.risk_assessment.risks, "RiskAnalyst")

RECURSIVE LinesOf(_)
\* The lines of a text.
LinesOf(s) == LET nl == {i \in 1..Len(s) : Ch(s, i) = "\n"} IN IF nl = {} THEN <<s>> ELSE <<SubSeq(s, 1, Min(nl) - 1)>> \o LinesOf(SubSeq(s, Min(nl) + 1, Len(s)))

\* The item is part of a line, of some message, that holds the keyword.
FromKeywordLine(item) == \E i \in 1..Len(messages) : \E l \in 1..Len(LinesOf(ContentOf(i))) : Contains(item, LinesOf(ContentOf(i))[l]) /\ Contains("recommend", lower(LinesOf(ContentOf(i))[l]))

\* C15 as stated: contents are bucketed by sender, and every recommendation
\* returned comes from a numbered line that itself matches "recommend".
C15_OnlyKeywordLines == Extracted => BucketedBySender /\ \A k \in 1..Len(results[1].recommendations) : FromKeywordLine(results[1].recommendations[k])

RECURSIVE NumberedItemsUpTo(_)
\* The numbered items of the first n messages, of those messages only whose
\* content holds "recommend" in any case, in transcript order.
NumberedItemsUpTo(n) == IF n = 0 THEN <<>> ELSE NumberedItemsUpTo(n - 1) \o (IF Contains("recommend", lower(ContentOf(n))) THEN FindAll(ContentOf(n)) ELSE <<>>)

\* C15 amended: contents are bucketed by sender, and the recommendations
\* are the texts after the number of every numbered item of every message
\* whose content holds "recommend" anywhere, in transcript order; the
\* keyword is looked for in the message, not in the item's line.
C15_KeywordMessages == Extracted => BucketedBySender /\ results[1].recommendations = NumberedItemsUpTo(Len(messages))

C15_Witness == Extracted /\ Len(messages) = 2 /\ messages[1] = [name |-> Some("User"), content |-> Some("We Recommend:\n1. Cut costs\n2.  Expand")] /\ messages[2] = [name |-> Some("RiskAnalyst"), content |-> Some("Risks 3. recommended hedge\n")] /\ results[1].recommendations = <<"Cut costs", "Expand", "recommended hedge">> /\ results[1].risk_assessment.risks = Some("Risks 3. recommended hedge\n") /\ results[1].market_research.insights = None

\* The content of the last of the messages at the positions, if any.
LastContent(positions) == IF positions = {} THEN None ELSE Some(ContentOf(Max(positions)))

SwotMessages == {i \in From("StrategyConsultant") : Contains("swot", lower(ContentOf(i)))}

PorterMessages == {i \in From("StrategyConsultant") : Contains("porter", lower(ContentOf(i))) /\ ~Contains("swot", lower(ContentOf(i)))}

\* C19: each slot holds the content of the last message of its sender, or
\* nothing when there is none; for StrategyConsultant the swot slot holds
\* the last message that mentions swot, the porters slot the last that
\* mentions porter and not swot; and company is "".
C19_LastWins == Extracted => LET r == results[1] IN /\ r.strategic_analysis.swot = LastContent(SwotMessages)
                                                    /\ r.strategic_analysis.porters = LastContent(PorterMessages)
                                                    /\ r.market_research.insights = LastContent(From("MarketResearcher"))
                                                    /\ r.financial_analysis.metrics = LastContent(From("FinancialAnalyst"))
                                                    /\ r.risk_assessment.risks = LastContent(From("RiskAnalyst"))
                                                    /\ r.company = ""

C19_Witness == Extracted /\ Len(messages) = 2 /\ SenderOf(1) = "StrategyConsultant" /\ SenderOf(2) = "StrategyConsultant" /\ ContentOf(1) = "SWOT: strong brand" /\ ContentOf(2) = "Porter and swot" /\ results[1].strategic_analysis.swot = Some("Porter and swot") /\ results[1].strategic_analysis.porters = None /\ results[1].company = ""

====
